---- MODULE Spec2Model ----
(***************************************************************************)
(* Model of scripts/local_transcribe.py: main() as a state machine.  One   *)
(* action per statement group of main(); every step inside the try block   *)
(* may raise, and the two except clauses turn the exception into a record. *)
(* Texts are sequences of one-character strings, so that strip(), split()  *)
(* and " ".join() are computed and not assumed.                            *)
(***************************************************************************)
EXTENDS Integers, Sequences, FiniteSets, TLC

VARIABLES
    \* ---- environment of one invocation
    argv,                 \* sys.argv (argv[1] is the program name)
    accelerator,          \* what torch.cuda.is_available() answers
    segment_pool,         \* raw texts the model may yield for this audio
    segment_limit,        \* length bound of the lazy segment stream
    fault_pool,           \* exceptions the environment may raise, and where
    clock_jitter,         \* largest advance of the clock between readings
    now,                  \* time.time(), in ticks
    segments,             \* raw segment texts the generator has yielded
    calls,                \* calls made into faster_whisper / torch
    stdio,                \* [stdout, stderr]: the lines printed to each stream
    exit_code,            \* <<>> while running, <<status>> once exited
    raised,               \* <<>> or <<[cls, msg, step]>>: the exception caught
    \* ---- locals of main()
    pc,
    audio_file_path,
    model_size,
    start_time,
    cuda_available,
    device,
    compute_type,
    model_load_time,
    beam_size,
    vad_filter,
    temperature,
    transcription_start_time,
    transcribed_text,
    segments_processed,
    last_segment_text,
    repetition_count,
    words,
    end_time

env == <<argv, accelerator, segment_pool, segment_limit, fault_pool, clock_jitter>>

locals == <<audio_file_path, model_size, start_time, cuda_available, device,
            compute_type, model_load_time, beam_size, vad_filter, temperature,
            transcription_start_time, transcribed_text, segments_processed,
            last_segment_text, repetition_count, words, end_time>>

vars == <<env, now, segments, calls, stdio, exit_code, raised, pc, locals>>

---------------------------------------------------------------------------
(* Bounds of the model *)

MaxSegs == 6
\* longest segment stream of SpecSeg

MaxWords == 153
\* most words of the one-segment texts of SpecGuard

MaxVocab == 4
\* most distinct words of those texts

MaxTick == 2
\* largest clock advance between two readings, in ticks

TicksPerMs == 2
\* clock resolution: ticks in a millisecond

MaxSegsShort == 2
\* longest segment stream of Spec

---------------------------------------------------------------------------
(* Program constants *)

MinArgv == 2

MaxArgv == 3

RepeatLimit == 4

MinKeepLen == 2

MinGuardWords == 10

RatioLimit == 3

TruncateCap == 50

TruncateDivisor == 3

BeamGpu == 5

BeamCpu == 1

DefaultModelSize == "small"

UsageMessage == "Usage: python local_transcribe.py <audio_file_path> [model_size]"

---------------------------------------------------------------------------
(* Text: str.strip(), str.split(), " ".join() *)

Whitespace == {" ", "\t"}

IsSpace(c) == c \in Whitespace

SetMin(S) == CHOOSE x \in S : \A y \in S : x <= y

Min2(a, b) == IF a <= b THEN a ELSE b

RECURSIVE FirstSolid(_, _)
\* the first index from i on that holds no whitespace, Len(s) + 1 when none
FirstSolid(s, i) ==
    IF i > Len(s) THEN i
    ELSE IF IsSpace(s[i]) THEN FirstSolid(s, i + 1)
    ELSE i

RECURSIVE LastSolid(_, _)
\* the last index up to i that holds no whitespace, 0 when none
LastSolid(s, i) ==
    IF i < 1 THEN i
    ELSE IF IsSpace(s[i]) THEN LastSolid(s, i - 1)
    ELSE i

\* str.strip(): drop leading and trailing whitespace
Strip(s) == SubSeq(s, FirstSolid(s, 1), LastSolid(s, Len(s)))

RECURSIVE WordEnd(_, _)
\* the last index of the word that holds index i
WordEnd(s, i) ==
    IF i = Len(s) THEN i
    ELSE IF IsSpace(s[i + 1]) THEN i
    ELSE WordEnd(s, i + 1)

IsWordStart(s, i) == ~IsSpace(s[i]) /\ (i = 1 \/ IsSpace(s[i - 1]))

RECURSIVE WordsIn(_, _, _)
\* the words of s that start in lo..hi, in order
WordsIn(s, lo, hi) ==
    IF lo > hi THEN <<>>
    ELSE IF lo = hi
         THEN (IF IsWordStart(s, lo) THEN <<SubSeq(s, lo, WordEnd(s, lo))>> ELSE <<>>)
         ELSE LET mid == (lo + hi) \div 2
              IN  WordsIn(s, lo, mid) \o WordsIn(s, mid + 1, hi)

\* str.split(): the maximal runs of non-whitespace, in order
Split(s) == WordsIn(s, 1, Len(s))

RECURSIVE JoinSpace(_)
\* " ".join(ws)
JoinSpace(ws) ==
    IF ws = <<>> THEN <<>>
    ELSE IF Len(ws) = 1 THEN ws[1]
    ELSE ws[1] \o <<" ">> \o JoinSpace(Tail(ws))

\* set(words)
UniqueWords(ws) == {ws[i] : i \in DOMAIN ws}

---------------------------------------------------------------------------
(* Exceptions and the two except clauses of main() *)

\* the classes a raised exception is an instance of
Mro(cls) ==
    CASE cls = "ModuleNotFoundError" ->
             {"ModuleNotFoundError", "ImportError", "Exception", "BaseException"}
      [] cls = "ImportError" -> {"ImportError", "Exception", "BaseException"}
      [] OTHER -> {cls, "Exception", "BaseException"}

ExceptClauses_OnlyImportError == <<"ImportError">>

\* except ImportError ... except Exception, in source order
ExceptClauses == <<"ImportError", "Exception">>

\* the first except clause that matches, "" when none does
CaughtBy(cls) ==
    LET hit == {i \in DOMAIN ExceptClauses : ExceptClauses[i] \in Mro(cls)}
    IN  IF hit = {} THEN "" ELSE ExceptClauses[SetMin(hit)]

---------------------------------------------------------------------------
(* Output *)

\* json.dumps(obj): one line holding one JSON object
JsonDumps(obj) == [json |-> obj]

\* a formatted diagnostic message: free text, no JSON object
Text(msg) == [text |-> msg]

\* print(line): to standard output
PrintOut(io, line) == [io EXCEPT !.stdout = Append(@, line)]

PrintErr_ToStdout(io, line) == [io EXCEPT !.stdout = Append(@, line)]

\* print(line, file=sys.stderr)
PrintErr(io, line) == [io EXCEPT !.stderr = Append(@, line)]

UsageRecord == [error |-> UsageMessage]

DependencyMissingRecord(msg) ==
    [error |-> "faster-whisper not installed",
     details |-> msg,
     install_command |-> "pip install faster-whisper"]

TranscriptionFailedRecord(msg, path) ==
    [error |-> "Transcription failed", details |-> msg, audio_file |-> path]

---------------------------------------------------------------------------
(* Device selection and inference settings *)

Device(cuda) == IF cuda THEN "cuda" ELSE "cpu"

ComputeType(cuda) == IF cuda THEN "float16" ELSE "int8"

BeamSize_AlwaysGpu(cuda) == BeamGpu

BeamSize(cuda) == IF cuda THEN BeamGpu ELSE BeamCpu

VadFilter(cuda) == IF cuda THEN TRUE ELSE FALSE

---------------------------------------------------------------------------
(* Timing *)

\* int(x): truncation toward zero of n / d
IntTrunc(n, d) == IF n >= 0 THEN n \div d ELSE -((-n) \div d)

\* int((b - a) * 1000) for readings a, b in ticks
ElapsedMs(a, b) == IntTrunc(b - a, TicksPerMs)

TotalMs_FromTranscriptionStart(t_start, t_load, t_trans, t_end) ==
    ElapsedMs(t_trans, t_end)

TotalMs(t_start, t_load, t_trans, t_end) == ElapsedMs(t_start, t_end)

Timing(t_start, t_load, t_trans, t_end) ==
    [model_load_ms |-> ElapsedMs(t_start, t_load),
     transcription_ms |-> ElapsedMs(t_trans, t_end),
     total_ms |-> TotalMs(t_start, t_load, t_trans, t_end)]

\* info returned by model.transcribe
Info == [language |-> "en", language_probability |-> 1, duration |-> 1]

---------------------------------------------------------------------------
(* Repetition heuristics *)

ArgcOk_NoUpperBound(n) == ~(n < MinArgv)

\* not (len(sys.argv) < 2 or len(sys.argv) > 3)
ArgcOk(n) == ~(n < MinArgv \/ n > MaxArgv)

ShouldBreak_OneLater(count) == count > RepeatLimit

\* repetition_count >= 4
ShouldBreak(count) == count >= RepeatLimit

KeepSegment_TwoOrMore(text) == text # <<>> /\ Len(text) >= MinKeepLen

\* segment_text and len(segment_text) > 2
KeepSegment(text) == text # <<>> /\ Len(text) > MinKeepLen

TruncateLen_NoCap(n) == n \div TruncateDivisor

\* min(50, len(words)//3)
TruncateLen(n) == Min2(TruncateCap, n \div TruncateDivisor)

\* len(words) / len(unique_words) > 3, the quotient kept as a fraction
RatioExceeds(ws) ==
    LET u == Cardinality(UniqueWords(ws))
    IN  IF u = 0 THEN FALSE ELSE Len(ws) > RatioLimit * u

\* the text after the repetition-ratio check
GuardedText(text) ==
    LET ws == Split(text)
    IN  IF Len(ws) > MinGuardWords /\ RatioExceeds(ws)
        THEN JoinSpace(SubSeq(ws, 1, TruncateLen(Len(ws))))
        ELSE text

---------------------------------------------------------------------------
(* The invocations checked *)

Chars(str) ==
    CASE str = "sp"   -> <<" ">>
      [] str = "hi"   -> <<"h", "i", " ">>
      [] str = "foo1" -> <<" ", "f", "o", "o">>
      [] str = "foo2" -> <<"f", "o", "o", "\t">>
      [] str = "a b"  -> <<"a", " ", " ", "b">>

\* raw segment texts: blank, two characters, two spellings of one text, two words
SegTexts == {Chars("sp"), Chars("hi"), Chars("foo1"), Chars("foo2"), Chars("a b")}

Vocab == <<"a", "b", "c", "d", "e", "f", "g", "h">>

\* a text of n one-letter words cycling through k distinct ones
MakeText(n, k) ==
    [i \in 1..(IF n = 0 THEN 0 ELSE 2 * n - 1) |->
        IF i % 2 = 1 THEN Vocab[(((i + 1) \div 2) % k) + 1] ELSE " "]

WordTexts == {MakeText(n, k) : n \in 0..MaxWords, k \in 1..MaxVocab}

ArgvAll ==
    {<<"prog">>, <<"prog", "a.wav">>, <<"prog", "b.wav", "tiny">>,
     <<"prog", "a.wav", "tiny", "extra">>}

ArgvFew == {<<"prog">>, <<"prog", "a.wav">>}

TrySteps ==
    {"import", "detect", "load", "settings", "transcribe", "loop", "strip",
     "guard", "emit"}

\* exceptions, each with the steps of the try block in which it can be raised
Faults ==
    {[cls |-> "ModuleNotFoundError", msg |-> "No module named 'faster_whisper'",
      at |-> {"import"}],
     [cls |-> "ModuleNotFoundError", msg |-> "No module named 'torch'",
      at |-> {"detect"}],
     [cls |-> "RuntimeError", msg |-> "CUDA out of memory",
      at |-> {"load", "transcribe", "loop"}],
     [cls |-> "OSError", msg |-> "[Errno 5] Input/output error",
      at |-> TrySteps]}

FaultsFew ==
    {[cls |-> "RuntimeError", msg |-> "CUDA out of memory", at |-> {"load"}]}

InitLocals ==
    /\ pc = "start"
    /\ now = 0
    /\ segments = <<>>
    /\ calls = <<>>
    /\ stdio = [stdout |-> <<>>, stderr |-> <<>>]
    /\ exit_code = <<>>
    /\ raised = <<>>
    /\ audio_file_path = ""
    /\ model_size = ""
    /\ start_time = 0
    /\ cuda_available = FALSE
    /\ device = ""
    /\ compute_type = ""
    /\ model_load_time = 0
    /\ beam_size = 0
    /\ vad_filter = FALSE
    /\ temperature = 0
    /\ transcription_start_time = 0
    /\ transcribed_text = <<>>
    /\ segments_processed = 0
    /\ last_segment_text = <<>>
    /\ repetition_count = 0
    /\ words = <<>>
    /\ end_time = 0

\* every argument count, both devices, every fault, a moving clock, short streams
Init ==
    /\ argv \in ArgvAll
    /\ accelerator \in BOOLEAN
    /\ segment_pool = {Chars("foo1"), Chars("hi")}
    /\ segment_limit = MaxSegsShort
    /\ fault_pool = Faults
    /\ clock_jitter = MaxTick
    /\ InitLocals

\* every segment stream of up to MaxSegs segments over SegTexts
InitSeg ==
    /\ argv \in ArgvFew
    /\ accelerator = FALSE
    /\ segment_pool = SegTexts
    /\ segment_limit = MaxSegs
    /\ fault_pool = FaultsFew
    /\ clock_jitter = 0
    /\ InitLocals

\* a stream of one segment, which holds up to MaxWords words, up to MaxVocab
\* of them distinct, or is one of SegTexts
InitGuard ==
    /\ argv \in ArgvFew
    /\ accelerator = FALSE
    /\ segment_pool \in {{t} : t \in WordTexts \cup SegTexts}
    /\ segment_limit = 1
    /\ fault_pool = FaultsFew
    /\ clock_jitter = 0
    /\ InitLocals

---------------------------------------------------------------------------
(* main() *)

\* time.time(): the clock never runs backwards
Readings == {now + d : d \in 0..clock_jitter}

\* lines 15-17: wrong argument count
UsageError ==
    /\ pc = "start"
    /\ ~ArgcOk(Len(argv))
    /\ stdio' = PrintOut(stdio, JsonDumps(UsageRecord))
    /\ exit_code' = <<1>>
    /\ pc' = "exited"
    /\ UNCHANGED <<env, now, segments, calls, raised,
                     audio_file_path, model_size, start_time,
                     cuda_available, device, compute_type, model_load_time,
                     beam_size, vad_filter, temperature,
                     transcription_start_time, transcribed_text,
                     segments_processed, last_segment_text,
                     repetition_count, words, end_time>>

\* lines 15, 19-20
ParseArgs ==
    /\ pc = "start"
    /\ ArgcOk(Len(argv))
    /\ audio_file_path' = argv[2]
    /\ model_size' = IF Len(argv) = 3 THEN argv[3] ELSE DefaultModelSize
    /\ pc' = "import"
    /\ UNCHANGED <<env, now, segments, calls, stdio, exit_code,
                     raised, start_time, cuda_available, device,
                     compute_type, model_load_time, beam_size, vad_filter,
                     temperature, transcription_start_time,
                     transcribed_text, segments_processed,
                     last_segment_text, repetition_count, words, end_time>>

\* lines 24-26
ImportWhisper ==
    /\ pc = "import"
    /\ calls' = Append(calls, [fn |-> "import faster_whisper", args |-> <<>>])
    /\ \E t \in Readings : now' = t /\ start_time' = t
    /\ pc' = "detect"
    /\ UNCHANGED <<env, segments, stdio, exit_code, raised,
                     audio_file_path, model_size, cuda_available, device,
                     compute_type, model_load_time, beam_size, vad_filter,
                     temperature, transcription_start_time,
                     transcribed_text, segments_processed,
                     last_segment_text, repetition_count, words, end_time>>

\* lines 29-35
DetectDevice ==
    /\ pc = "detect"
    /\ calls' = calls \o <<[fn |-> "import torch", args |-> <<>>],
                           [fn |-> "torch.cuda.is_available", args |-> <<>>]>>
    /\ cuda_available' = accelerator
    /\ device' = Device(accelerator)
    /\ compute_type' = ComputeType(accelerator)
    /\ stdio' = PrintErr(stdio, Text("CUDA available"))
    /\ pc' = "load"
    /\ UNCHANGED <<env, now, segments, exit_code, raised,
                     audio_file_path, model_size, start_time,
                     model_load_time, beam_size, vad_filter, temperature,
                     transcription_start_time, transcribed_text,
                     segments_processed, last_segment_text,
                     repetition_count, words, end_time>>

\* lines 38-46
LoadModel ==
    /\ pc = "load"
    /\ calls' = Append(calls, [fn |-> "WhisperModel",
                               args |-> [model_size_or_path |-> model_size,
                                         device |-> device,
                                         compute_type |-> compute_type]])
    /\ \E t \in Readings : now' = t /\ model_load_time' = t
    /\ pc' = "settings"
    /\ UNCHANGED <<env, segments, stdio, exit_code, raised,
                     audio_file_path, model_size, start_time,
                     cuda_available, device, compute_type, beam_size,
                     vad_filter, temperature, transcription_start_time,
                     transcribed_text, segments_processed,
                     last_segment_text, repetition_count, words, end_time>>

\* lines 49-54
Settings ==
    /\ pc = "settings"
    /\ beam_size' = BeamSize(cuda_available)
    /\ vad_filter' = VadFilter(cuda_available)
    /\ temperature' = 0
    /\ stdio' = PrintErr(stdio, Text("[DEBUG] Transcription settings"))
    /\ pc' = "transcribe"
    /\ UNCHANGED <<env, now, segments, calls, exit_code, raised,
                     audio_file_path, model_size, start_time,
                     cuda_available, device, compute_type, model_load_time,
                     transcription_start_time, transcribed_text,
                     segments_processed, last_segment_text,
                     repetition_count, words, end_time>>

\* lines 57-79
Transcribe ==
    /\ pc = "transcribe"
    /\ calls' = Append(calls, [fn |-> "transcribe",
                               args |-> [audio |-> audio_file_path,
                                         beam_size |-> beam_size,
                                         language |-> "en",
                                         condition_on_previous_text |-> FALSE,
                                         vad_filter |-> vad_filter,
                                         temperature |-> temperature,
                                         compression_ratio_threshold |-> "2.4",
                                         log_prob_threshold |-> "-1.0",
                                         no_speech_threshold |-> "0.6",
                                         initial_prompt |-> "None"]])
    /\ \E t \in Readings : now' = t /\ transcription_start_time' = t
    /\ transcribed_text' = <<>>
    /\ segments_processed' = 0
    /\ last_segment_text' = <<>>
    /\ repetition_count' = 0
    /\ stdio' = PrintErr(stdio, Text("[DEBUG] Processing transcription segments..."))
    /\ pc' = "loop"
    /\ UNCHANGED <<env, segments, exit_code, raised,
                     audio_file_path, model_size, start_time,
                     cuda_available, device, compute_type, model_load_time,
                     beam_size, vad_filter, temperature, words, end_time>>

\* lines 81-100: one iteration of the for loop, on the next segment yielded
ConsumeSegment ==
    /\ pc = "loop"
    /\ Len(segments) < segment_limit
    /\ \E raw \in segment_pool :
        LET segment_text == Strip(raw)
            repeat == segment_text = last_segment_text
            count == IF repeat THEN repetition_count + 1 ELSE 0
            stop == repeat /\ ShouldBreak(count)
            warned == IF repeat
                      THEN PrintErr(stdio, Text("[WARNING] Repetitive segment detected"))
                      ELSE stdio
        IN  /\ segments' = Append(segments, raw)
            /\ segments_processed' = segments_processed + 1
            /\ repetition_count' = count
            /\ last_segment_text' = IF repeat THEN last_segment_text ELSE segment_text
            /\ stdio' = IF stop
                        THEN PrintErr(warned, Text("[WARNING] Breaking due to excessive repetition"))
                        ELSE warned
            /\ transcribed_text' = IF ~stop /\ KeepSegment(segment_text)
                                   THEN transcribed_text \o segment_text \o <<" ">>
                                   ELSE transcribed_text
            /\ pc' = IF stop THEN "strip" ELSE "loop"
    /\ UNCHANGED <<env, now, calls, exit_code, raised,
                     audio_file_path, model_size, start_time,
                     cuda_available, device, compute_type, model_load_time,
                     beam_size, vad_filter, temperature,
                     transcription_start_time, words, end_time>>

\* line 81: the generator is exhausted
EndOfSegments ==
    /\ pc = "loop"
    /\ pc' = "strip"
    /\ UNCHANGED <<env, now, segments, calls, stdio, exit_code,
                     raised, audio_file_path, model_size, start_time,
                     cuda_available, device, compute_type, model_load_time,
                     beam_size, vad_filter, temperature,
                     transcription_start_time, transcribed_text,
                     segments_processed, last_segment_text,
                     repetition_count, words, end_time>>

\* lines 102-105
StripText ==
    /\ pc = "strip"
    /\ transcribed_text' = Strip(transcribed_text)
    /\ stdio' = PrintErr(stdio, Text("[DEBUG] Processed segments"))
    /\ pc' = "guard"
    /\ UNCHANGED <<env, now, segments, calls, exit_code, raised,
                     audio_file_path, model_size, start_time,
                     cuda_available, device, compute_type, model_load_time,
                     beam_size, vad_filter, temperature,
                     transcription_start_time, segments_processed,
                     last_segment_text, repetition_count, words, end_time>>

\* lines 108-118
RatioGuard ==
    /\ pc = "guard"
    /\ words' = Split(transcribed_text)
    /\ transcribed_text' = GuardedText(transcribed_text)
    /\ stdio' = IF Len(words') > MinGuardWords /\ RatioExceeds(words')
                THEN PrintErr(PrintErr(stdio, Text("[WARNING] High repetition ratio detected")),
                              "[WARNING] Truncated")
                ELSE stdio
    /\ pc' = "emit"
    /\ UNCHANGED <<env, now, segments, calls, exit_code, raised,
                     audio_file_path, model_size, start_time,
                     cuda_available, device, compute_type, model_load_time,
                     beam_size, vad_filter, temperature,
                     transcription_start_time, segments_processed,
                     last_segment_text, repetition_count, end_time>>

\* lines 120-139
Result(t_end) ==
    [text |-> transcribed_text,
     language |-> Info.language,
     language_probability |-> Info.language_probability,
     duration |-> Info.duration,
     device |-> device,
     compute_type |-> compute_type,
     model_size |-> model_size,
     beam_size |-> beam_size,
     vad_filter |-> vad_filter,
     cuda_available |-> cuda_available,
     timing |-> Timing(start_time, model_load_time, transcription_start_time, t_end)]

\* lines 120-141, and the return from main()
EmitResult ==
    /\ pc = "emit"
    /\ \E t \in Readings :
        /\ now' = t
        /\ end_time' = t
        /\ stdio' = PrintOut(stdio, JsonDumps(Result(t)))
    /\ exit_code' = <<0>>
    /\ pc' = "exited"
    /\ UNCHANGED <<env, segments, calls, raised,
                     audio_file_path, model_size, start_time,
                     cuda_available, device, compute_type, model_load_time,
                     beam_size, vad_filter, temperature,
                     transcription_start_time, transcribed_text,
                     segments_processed, last_segment_text,
                     repetition_count, words>>

\* lines 143-157: a step of the try block raises; the matching except clause
\* prints its record and exits, an exception no clause matches leaves main()
Fail ==
    /\ pc \in TrySteps
    /\ \E e \in fault_pool :
        LET clause == CaughtBy(e.cls)
        IN  /\ pc \in e.at
            /\ raised' = <<[cls |-> e.cls, msg |-> e.msg, step |-> pc]>>
            /\ stdio' =
                 CASE clause = "ImportError" ->
                          PrintOut(stdio, JsonDumps(DependencyMissingRecord(e.msg)))
                   [] clause = "Exception" ->
                          PrintOut(stdio, JsonDumps(
                              TranscriptionFailedRecord(e.msg, audio_file_path)))
                   [] OTHER -> PrintErr(stdio, Text("Traceback (most recent call last)"))
    /\ exit_code' = <<1>>
    /\ pc' = "exited"
    /\ UNCHANGED <<env, now, segments, calls, audio_file_path,
                     model_size, start_time, cuda_available, device,
                     compute_type, model_load_time, beam_size, vad_filter,
                     temperature, transcription_start_time,
                     transcribed_text, segments_processed,
                     last_segment_text, repetition_count, words, end_time>>

Next ==
    \/ UsageError
    \/ ParseArgs
    \/ ImportWhisper
    \/ DetectDevice
    \/ LoadModel
    \/ Settings
    \/ Transcribe
    \/ ConsumeSegment
    \/ EndOfSegments
    \/ StripText
    \/ RatioGuard
    \/ EmitResult
    \/ Fail

Spec == Init /\ [][Next]_vars

SpecSeg == InitSeg /\ [][Next]_vars

SpecGuard == InitGuard /\ [][Next]_vars

---------------------------------------------------------------------------
(* Properties of the output and of the error handling, checked under Spec *)

IsJson(line) == "json" \in DOMAIN line

IsErrorRecord(line) == IsJson(line) /\ "error" \in DOMAIN line.json

IsSuccessRecord(line) == IsJson(line) /\ "text" \in DOMAIN line.json

Exited == pc = "exited"

Failed == raised # <<>>

\* C1: when the process has exited, on whichever path, standard output holds
\* exactly one JSON object, and none before that; every diagnostic line is on
\* standard error and no diagnostic line is on standard output.
C1_ExactlyOneJsonObject ==
    /\ \A i \in DOMAIN stdio.stdout : IsJson(stdio.stdout[i])
    /\ \A i \in DOMAIN stdio.stderr : ~IsJson(stdio.stderr[i])
    /\ Exited => Len(stdio.stdout) = 1
    /\ ~Exited => Len(stdio.stdout) = 0

\* a run that failed midway through the segments, after diagnostics were printed
C1_Witness ==
    /\ Exited
    /\ Failed
    /\ raised[1].step = "loop"
    /\ Len(segments) >= 1
    /\ Len(stdio.stderr) >= 3
    /\ Len(stdio.stdout) = 1

\* C2: a failure in any step after the argument check ends in one error record
\* on standard output and exit status 1; the exit status is 0 exactly when the
\* object written is the success record; no success record is written in a run
\* in which a step failed.
C2_FailuresBecomeErrorRecords ==
    /\ Failed => /\ Exited
                 /\ exit_code = <<1>>
                 /\ Len(stdio.stdout) = 1
                 /\ IsErrorRecord(stdio.stdout[1])
    /\ Exited => (exit_code = <<0>> <=>
                    (Len(stdio.stdout) = 1 /\ IsSuccessRecord(stdio.stdout[1])))
    /\ Exited => exit_code \in {<<0>>, <<1>>}
    /\ (\E i \in DOMAIN stdio.stdout : IsSuccessRecord(stdio.stdout[i])) => ~Failed

\* the result emission itself failed, and the run ended in an error record
C2_Witness ==
    /\ Exited
    /\ Failed
    /\ raised[1].step = "emit"
    /\ raised[1].cls = "OSError"
    /\ exit_code = <<1>>
    /\ IsErrorRecord(stdio.stdout[1])

\* device detection, model load, the transcribe call, segment consumption
InferenceSteps == {"detect", "load", "transcribe", "loop"}

\* C3: a run ends with the "faster-whisper not installed" record when the
\* library cannot be imported, and a failure in device detection, model load or
\* inference ends with the "Transcription failed" record carrying the message
\* and the input path; both with exit status 1.
C3_ErrorClassification ==
    (Exited /\ Failed) =>
        LET e == raised[1]
            out == stdio.stdout[1].json
        IN  /\ exit_code = <<1>>
            /\ (e.step = "import" /\ "ImportError" \in Mro(e.cls))
                   => out = DependencyMissingRecord(e.msg)
            /\ e.step \in InferenceSteps
                   => out = TranscriptionFailedRecord(e.msg, audio_file_path)

Positional == Len(argv) - 1

CallsTo(fn) == {calls[i].args : i \in {j \in DOMAIN calls : calls[j].fn = fn}}

\* C4: with zero or more than two positional arguments the run writes the usage
\* record and exits with status 1 having made no call into the library (no
\* import, no device detection, no model, no inference); with one or two the
\* usage record is never written and the model size is the second argument, or
\* "small" without one.
C4_UsageBeforeModelWork ==
    /\ Positional \notin {1, 2} =>
          /\ calls = <<>>
          /\ pc \in {"start", "exited"}
          /\ ~Failed
          /\ Exited => /\ stdio.stdout = <<JsonDumps(UsageRecord)>>
                       /\ exit_code = <<1>>
    /\ Positional \in {1, 2} =>
          /\ \A i \in DOMAIN stdio.stdout : stdio.stdout[i] # JsonDumps(UsageRecord)
          /\ pc # "start" =>
                model_size = (IF Positional = 2 THEN argv[3] ELSE "small")
          /\ \A a \in CallsTo("WhisperModel") :
                a.model_size_or_path = (IF Positional = 2 THEN argv[3] ELSE "small")

\* three positional arguments: the usage record, and nothing else happened
C4_Witness ==
    /\ Positional = 3
    /\ Exited
    /\ exit_code = <<1>>
    /\ stdio.stdout = <<JsonDumps(UsageRecord)>>

\* C8: device, precision, beam width and voice-activity filtering depend on the
\* accelerator alone (cuda/float16/5/on with it, cpu/int8/1/off without),
\* temperature is 0, and the success record reports the values that were passed
\* to the model's construction and to the inference call.
C8_DeviceSelection ==
    LET want == IF accelerator
                THEN [device |-> "cuda", compute_type |-> "float16",
                      beam_size |-> 5, vad_filter |-> TRUE]
                ELSE [device |-> "cpu", compute_type |-> "int8",
                      beam_size |-> 1, vad_filter |-> FALSE]
    IN  /\ \A m \in CallsTo("WhisperModel") :
              m.device = want.device /\ m.compute_type = want.compute_type
        /\ \A t \in CallsTo("transcribe") :
              /\ t.beam_size = want.beam_size
              /\ t.vad_filter = want.vad_filter
              /\ t.temperature = 0
        /\ \A i \in DOMAIN stdio.stdout :
              IsSuccessRecord(stdio.stdout[i]) =>
                  LET r == stdio.stdout[i].json
                  IN  /\ r.device = want.device
                      /\ r.compute_type = want.compute_type
                      /\ r.beam_size = want.beam_size
                      /\ r.vad_filter = want.vad_filter
                      /\ r.cuda_available = accelerator
                      /\ \A m \in CallsTo("WhisperModel") :
                            /\ m.device = r.device
                            /\ m.compute_type = r.compute_type
                            /\ m.model_size_or_path = r.model_size
                      /\ \A t \in CallsTo("transcribe") :
                            /\ t.beam_size = r.beam_size
                            /\ t.vad_filter = r.vad_filter

\* a successful run without accelerator, the model built and inference called
C8_Witness ==
    /\ Exited
    /\ exit_code = <<0>>
    /\ ~accelerator
    /\ CallsTo("WhisperModel") # {}
    /\ CallsTo("transcribe") # {}
    /\ stdio.stdout[1].json.device = "cpu"

\* C9: with a clock that never runs backwards, the three timing fields of a
\* success record are whole numbers of milliseconds, none negative, and
\* total_ms is at least model_load_ms, at least transcription_ms and at least
\* their sum.
C9_Timing ==
    \A i \in DOMAIN stdio.stdout :
        IsSuccessRecord(stdio.stdout[i]) =>
            LET t == stdio.stdout[i].json.timing
            IN  /\ t.model_load_ms \in Nat
                /\ t.transcription_ms \in Nat
                /\ t.total_ms \in Nat
                /\ t.total_ms >= t.model_load_ms
                /\ t.total_ms >= t.transcription_ms
                /\ t.total_ms >= t.model_load_ms + t.transcription_ms

\* a success record whose parts are both positive and sum to less than the total
C9_Witness ==
    /\ Exited
    /\ exit_code = <<0>>
    /\ LET t == stdio.stdout[1].json.timing
       IN  /\ t.model_load_ms >= 1
           /\ t.transcription_ms >= 1
           /\ t.total_ms > t.model_load_ms + t.transcription_ms

---------------------------------------------------------------------------
(* Properties of the segment loop, checked under SpecSeg *)

\* the trimmed text of the i-th segment yielded
TrimmedAt(i) == Strip(segments[i])

\* the trimmed texts of the segments yielded so far
Trimmed == [i \in DOMAIN segments |-> TrimmedAt(i)]

\* how many consecutive segments, ending with segment k, have its trimmed text
RunLen(k) ==
    LET first == CHOOSE j \in 1..k :
                     /\ \A i \in j..k : TrimmedAt(i) = TrimmedAt(k)
                     /\ j = 1 \/ TrimmedAt(j - 1) # TrimmedAt(k)
    IN  k - first + 1

InOrAfterLoop == pc \in {"loop", "strip", "guard", "emit"}

\* the loop was left by its break
Stopped == InOrAfterLoop /\ repetition_count >= 4

RECURSIVE Accumulated(_)
\* what the loop appends for the trimmed texts ts: each text longer than 2
\* characters, followed by one space
Accumulated(ts) ==
    IF ts = <<>> THEN <<>>
    ELSE Accumulated(SubSeq(ts, 1, Len(ts) - 1))
            \o (IF Len(ts[Len(ts)]) > 2 THEN ts[Len(ts)] \o <<" ">> ELSE <<>>)

\* segment k is the fifth of five consecutive segments with equal trimmed texts
FifthOfRun(k) ==
    /\ k >= 5
    /\ \A i \in (k - 4)..(k - 1) : TrimmedAt(i) = TrimmedAt(k)

\* the segment loop stops at the fifth segment of a run of equal trimmed texts:
\* nothing after it is fetched, and it is not appended
StopsAtFifthOfRun ==
    \A k \in DOMAIN segments :
        FifthOfRun(k) =>
            /\ k = Len(segments)
            /\ pc # "loop"
            /\ pc = "strip" =>
                  transcribed_text = Accumulated(SubSeq(Trimmed, 1, k - 1))

ConsumedBeforeStop ==
    IF Stopped THEN SubSeq(Trimmed, 1, Len(segments) - 1) ELSE Trimmed

LongerThanTwo(text) == Len(text) > 2

\* C6: the text before the ratio guard is the single-space join, in stream
\* order, of the trimmed texts longer than 2 characters of the segments
\* consumed before the stop, without leading or trailing whitespace.
C6_ShortSegmentFilter ==
    pc = "guard" =>
        /\ transcribed_text =
               JoinSpace(SelectSeq(ConsumedBeforeStop, LongerThanTwo))
        /\ transcribed_text # <<>> =>
               /\ ~IsSpace(transcribed_text[1])
               /\ ~IsSpace(transcribed_text[Len(transcribed_text)])

\* a stream with a blank, a two-character and three longer segments
C6_Witness ==
    /\ pc = "guard"
    /\ segments = <<Chars("foo1"), Chars("hi"), Chars("a b"), Chars("sp"), Chars("foo2")>>
    /\ transcribed_text =
           <<"f", "o", "o", " ", "a", " ", " ", "b", " ", "f", "o", "o">>

\* C10: after each consumed segment the repetition counter is the number of
\* immediately preceding consecutive segments with the same trimmed text: a
\* segment equal to its predecessor increments it, every other segment, the
\* first of the stream included, resets it to 0; so consumption stops early
\* only after a run of 5 equal segments.
C10_RepeatCounter ==
    (InOrAfterLoop /\ segments # <<>>) =>
        /\ repetition_count = RunLen(Len(segments)) - 1
        /\ Stopped => RunLen(Len(segments)) = 5

---------------------------------------------------------------------------
(* The repetition-ratio guard, checked under SpecGuard *)

\* the text the guard must leave for the text it is given
RatioGuardResult(text) ==
    LET W == Split(text)
        distinct == Cardinality({W[i] : i \in DOMAIN W})
        keep == IF Len(W) \div 3 < 50 THEN Len(W) \div 3 ELSE 50
    IN  IF Len(W) > 10 /\ Len(W) > 3 * distinct
        THEN JoinSpace([i \in 1..keep |-> W[i]])
        ELSE text

\* C7: with W the words of the accumulated text, if |W| > 10 and
\* |W| > 3 * distinct(W) the final text is the first min(50, |W| // 3) words
\* joined by single spaces, and otherwise the text is left unchanged.
C7_RatioGuard ==
    [][(pc = "guard" /\ pc' = "emit") =>
           transcribed_text' = RatioGuardResult(transcribed_text)]_vars

\* 153 words were cut down to 50 (153 // 3 = 51 is over the cap)
C7_Witness ==
    /\ pc = "emit"
    /\ Len(words) = 153
    /\ Len(Split(transcribed_text)) = 50
    /\ transcribed_text = JoinSpace(SubSeq(words, 1, 50))

====
